---- MODULE Spec2Model ----
(***************************************************************************)
(* A model of app.py, the mutual-fund NAV tracker page.                    *)
(*                                                                         *)
(* Dates are <<year, month, day>> with the proleptic Gregorian ordinal of  *)
(* datetime; timestamps are counted in half-days so that "midnight of a    *)
(* date" and "some later time of that day" (datetime.today()) compare as   *)
(* pandas compares them.  Floats are exact fractions <<num, den>>, "nan"   *)
(* or "inf", encoded below; None is the empty tuple.  A DataFrame is the sequence of    *)
(* its rows in positional order.  A call that raises yields                *)
(* [exc |-> <exception name>].                                             *)
(***************************************************************************)
EXTENDS Integers, Sequences, FiniteSets, TLC

(* ------------------------------ bounds -------------------------------- *)
\* longest payload / benchmark series drawn for the function-level checks
MaxLen == 3
\* longest payload drawn per fund for the page run
MaxPageLen == 2
\* fixed-point resolution of the n-th root in calculate_cagr
RootScale == 10

(* -------------------------- program constants -------------------------- *)
\* the sampled window and the table's window, in years of 365 days
WindowYears == 5
TableYears == 2
DaysPerYear == 365
\* the horizons of the CAGR tiles
ShortHorizon == 2
LongHorizon == 5
TargetDay == 3
AlertPercent == 80
UnderperformMargin == 3
NumFunds == 3

\* None, and the two non-finite floats a division can give
None == <<>>
NaN == <<0, 0>>
Inf == <<1, 0>>

(* ------------------------------ calendar ------------------------------- *)
IsLeap(y) == (y % 4 = 0) /\ ((y % 100 # 0) \/ (y % 400 = 0))

DaysInMonth(y, m) ==
    IF m = 2 THEN (IF IsLeap(y) THEN 29 ELSE 28)
    ELSE IF m \in {4, 6, 9, 11} THEN 30 ELSE 31

RECURSIVE DaysBeforeMonth(_, _)
DaysBeforeMonth(y, m) ==
    IF m <= 1 THEN 0 ELSE DaysBeforeMonth(y, m - 1) + DaysInMonth(y, m - 1)

DaysBeforeYear(y) ==
    365 * (y - 1) + ((y - 1) \div 4) - ((y - 1) \div 100) + ((y - 1) \div 400)

\* date.toordinal()
Ord(date) == DaysBeforeYear(date[1]) + DaysBeforeMonth(date[1], date[2]) + date[3]

\* a Timestamp at midnight of `date`, in half-days
Stamp(date) == 2 * Ord(date)

\* timedelta(days = n), in half-days
Days(n) == 2 * n

\* strftime / same calendar month
MonthOf(date) == <<date[1], date[2]>>

(* ------------------------------ floats --------------------------------- *)
Abs(x) == IF x < 0 THEN -x ELSE x

RECURSIVE Gcd(_, _)
Gcd(a, b) == IF b = 0 THEN a ELSE Gcd(b, a % b)

\* the fraction n/d in lowest terms with a positive denominator
Frac(n, d) ==
    LET g == Gcd(Abs(n), Abs(d))
        s == IF d < 0 THEN -1 ELSE 1
    IN  <<(s * n) \div g, (s * d) \div g>>

IsNum(x) == Len(x) = 2 /\ x[2] > 0

FLess(a, b) == a[1] * b[2] < b[1] * a[2]

FSub(a, b) == Frac(a[1] * b[2] - b[1] * a[2], a[2] * b[2])

FMul(a, b) == Frac(a[1] * b[1], a[2] * b[2])

\* float division of two non-negative numbers: x/0 is inf, 0/0 is nan
FDiv(a, b) ==
    IF b[1] = 0 THEN (IF a[1] = 0 THEN NaN ELSE Inf)
    ELSE Frac(a[1] * b[2], a[2] * b[1])

(* ------------------------------ sorting -------------------------------- *)
RemoveAt(s, i) == SubSeq(s, 1, i - 1) \o SubSeq(s, i + 1, Len(s))

\* Every ordering a sort of the keyed rows may return: the default sort kind
\* ("quicksort") is not stable, so rows with equal keys may come out in any
\* order.
RECURSIVE SortKeyed(_)
SortKeyed(s) ==
    IF s = <<>> THEN {<<>>}
    ELSE UNION { { <<s[i]>> \o t : t \in SortKeyed(RemoveAt(s, i)) } :
                 i \in { j \in 1..Len(s) : \A k \in 1..Len(s) : s[j].k <= s[k].k } }

Unkeyed(t) == [i \in 1..Len(t) |-> t[i].v]

\* df.sort_values('date'): every outcome
SortByDate(rows) ==
    { Unkeyed(t) :
      t \in SortKeyed([i \in 1..Len(rows) |-> [k |-> Stamp(rows[i].date), v |-> rows[i]]]) }

\* df.sort_values('Date'): every outcome
SortByDateCol(rows) ==
    { Unkeyed(t) :
      t \in SortKeyed([i \in 1..Len(rows) |-> [k |-> Stamp(rows[i].Date), v |-> rows[i]]]) }

\* df.sort_values('Date', ascending=False): every outcome
SortByDateColDesc(rows) ==
    { Unkeyed(t) :
      t \in SortKeyed([i \in 1..Len(rows) |-> [k |-> -Stamp(rows[i].Date), v |-> rows[i]]]) }

(* --------------------------- the fund API ------------------------------ *)
\* A JSON record of the payload is [date |-> <<a, b, c>>, nav |-> text]: the
\* date text "a-b-c", and the nav text, <<n>> for the decimal text of n and
\* <<>> for a text that is no number.

\* pd.to_datetime(text, format="%d-%m-%Y"): the date, or None when the text
\* does not match the format
ParseDate(t) ==
    IF /\ t[3] \in 1000..9999
       /\ t[2] \in 1..12
       /\ t[1] >= 1
       /\ t[1] <= DaysInMonth(t[3], t[2])
    THEN <<t[3], t[2], t[1]>>
    ELSE None

\* float(text): the number, or None when the text is no number
ParseFloat(t) == IF Len(t) = 1 THEN Frac(t[1], 1) ELSE None

Raises(name) == [exc |-> name, df |-> <<>>]

Returns(rows) == [exc |-> "none", df |-> rows]

\* fetch_fund_history(code), given what the HTTP call gives: every outcome
FetchFundHistory(resp) ==
    IF resp.kind = "unreachable" THEN {Raises("ConnectionError")}
    ELSE IF resp.kind = "text" THEN {Raises("JSONDecodeError")}
    ELSE IF ~resp.has_data \/ resp.data = <<>> THEN {Returns(<<>>)}
    ELSE IF \E i \in 1..Len(resp.data) : ParseDate(resp.data[i].date) = None
    THEN {Raises("ValueError")}
    ELSE IF \E i \in 1..Len(resp.data) : ParseFloat(resp.data[i].nav) = None
    THEN {Raises("ValueError")}
    ELSE { Returns(t) :
           t \in SortByDate([i \in 1..Len(resp.data) |->
                               [date |-> ParseDate(resp.data[i].date),
                                nav  |-> ParseFloat(resp.data[i].nav)]]) }

(* --------------------------- data preparation -------------------------- *)
\* now - timedelta(days = years * 365)
Cutoff(years, now) == now - Days(years * DaysPerYear)

\* df[df['date'] >= cutoff]
SinceCutoff(rows, years, now) ==
    LET Keep(r) == Stamp(r.date) >= Cutoff(years, now)
    IN  SelectSeq(rows, Keep)

\* df[df['Date'] >= cutoff]
SinceCutoffCol(rows, years, now) ==
    LET Keep(r) == Stamp(r.Date) >= Cutoff(years, now)
    IN  SelectSeq(rows, Keep)

\* Series.pct_change() * 100 of the navs, by position
PctChange(navs, i) ==
    IF i = 1 THEN NaN
    ELSE LET q == FDiv(navs[i], navs[i - 1])
         IN  IF IsNum(q) THEN FMul(FSub(q, <<1, 1>>), <<100, 1>>) ELSE q

OnTargetDay(r) == r.date[3] = TargetDay

\* get_fund_data(code), given the cached history: every outcome
GetFundData(df_all, now) ==
    IF df_all = <<>> THEN {<<>>}
    ELSE LET df_5y  == SinceCutoff(df_all, WindowYears, now)
             df_3rd == SelectSeq(df_5y, OnTargetDay)
         IN  UNION { SortByDateColDesc([i \in 1..Len(asc) |->
                        [Date   |-> asc[i].date,
                         NAV    |-> asc[i].nav,
                         Change |-> PctChange([j \in 1..Len(asc) |-> asc[j].nav], i)]]) :
                     asc \in SortByDate(df_3rd) }

\* Series.idxmax(): the first position holding the maximum
IdxMax(rows) ==
    CHOOSE i \in 1..Len(rows) :
        /\ \A j \in 1..Len(rows) : ~FLess(rows[i].nav, rows[j].nav)
        /\ \A j \in 1..(i - 1) : FLess(rows[j].nav, rows[i].nav)

\* get_current_and_alltime_nav with iloc[0] for iloc[-1]
GetCurrentAndAlltimeNavFirstRow(df_all) ==
    IF df_all = <<>>
    THEN [current_nav |-> None, current_date |-> None, max_nav |-> None, max_date |-> None]
    ELSE [current_nav  |-> df_all[1].nav,
          current_date |-> df_all[1].date,
          max_nav      |-> df_all[IdxMax(df_all)].nav,
          max_date     |-> df_all[IdxMax(df_all)].date]

\* get_current_and_alltime_nav(code), given the cached history
GetCurrentAndAlltimeNav(df_all) ==
    IF df_all = <<>>
    THEN [current_nav |-> None, current_date |-> None, max_nav |-> None, max_date |-> None]
    ELSE [current_nav  |-> df_all[Len(df_all)].nav,
          current_date |-> df_all[Len(df_all)].date,
          max_nav      |-> df_all[IdxMax(df_all)].nav,
          max_date     |-> df_all[IdxMax(df_all)].date]

RECURSIVE Pow(_, _)
Pow(b, e) == IF e = 0 THEN 1 ELSE b * Pow(b, e - 1)

\* the largest r with (r / RootScale) ^ years <= num / den
RECURSIVE RootFrom(_, _, _, _)
RootFrom(r, num, den, years) ==
    IF Pow(r + 1, years) * den <= num * Pow(RootScale, years)
    THEN RootFrom(r + 1, num, den, years)
    ELSE r

\* calculate_cagr without the guard on end_value
CalculateCagrNoEndGuard(start_value, end_value, years) ==
    IF start_value[1] <= 0 \/ years <= 0 THEN None
    ELSE LET q == FDiv(end_value, start_value)
         IN  Frac((RootFrom(0, q[1], q[2], years) - RootScale) * 100, RootScale)

\* calculate_cagr(start_value, end_value, years), the root taken to
\* 1/RootScale
CalculateCagr(start_value, end_value, years) ==
    IF start_value[1] <= 0 \/ end_value[1] <= 0 \/ years <= 0 THEN None
    ELSE LET q == FDiv(end_value, start_value)
         IN  Frac((RootFrom(0, q[1], q[2], years) - RootScale) * 100, RootScale)

Value(v) == [exc |-> "none", val |-> v]

Throws(name) == [exc |-> name, val |-> None]

\* get_cagr_from_history(code, years, column='NAV'), given the cached
\* history: every outcome
GetCagrFromHistory(hist, years, now) ==
    IF hist = <<>> THEN {Throws("KeyError")}
    ELSE { IF Len(hist_f) >= 2
           THEN Value(CalculateCagr(hist_f[1].nav, hist_f[Len(hist_f)].nav, years))
           ELSE Value(None) :
           hist_f \in SortByDate(SinceCutoff(hist, years, now)) }

\* nifty_cagr_years(nifty_df, years): every outcome
NiftyCagrYears(nifty_df, years, now) ==
    IF nifty_df = <<>> THEN {None}
    ELSE { IF Len(df_f) >= 2
           THEN CalculateCagr(df_f[1].Nifty, df_f[Len(df_f)].Nifty, years)
           ELSE None :
           df_f \in SortByDateCol(SinceCutoffCol(nifty_df, years, now)) }

\* (nifty_df['Date'] - d).abs().argsort()[:1]: the positions the first
\* element of the argsort may be, the sort kind being unstable
Nearest(nifty_df, d) ==
    { i \in 1..Len(nifty_df) :
        \A j \in 1..Len(nifty_df) :
            Abs(Stamp(nifty_df[i].Date) - Stamp(d)) <= Abs(Stamp(nifty_df[j].Date) - Stamp(d)) }

\* merge_fund_nifty(fund_df, nifty_df): every outcome
MergeFundNifty(fund_df, nifty_df) ==
    IF fund_df = <<>> \/ nifty_df = <<>> THEN {fund_df}
    ELSE { [i \in 1..Len(fund_df) |->
              [Date        |-> fund_df[i].Date,
               NAV         |-> fund_df[i].NAV,
               Change      |-> fund_df[i].Change,
               NiftyChange |-> nifty_df[pick[i]].NiftyChange]] :
           pick \in { f \in [1..Len(fund_df) -> 1..Len(nifty_df)] :
                        \A i \in 1..Len(fund_df) : f[i] \in Nearest(nifty_df, fund_df[i].Date) } }

(* --------------------------- the benchmark ----------------------------- *)
\* What yf.download gives is [has_close, has_adj, rows], the rows being
\* [Date, Close, AdjClose] in the order delivered.

\* get_nifty_data(), given what the download gives
GetNiftyData(download) ==
    IF download.rows = <<>> THEN <<>>
    ELSE IF ~download.has_close /\ ~download.has_adj THEN <<>>
    ELSE LET price(r) == IF download.has_close THEN r.Close ELSE r.AdjClose
             n == Len(download.rows)
             prices == [i \in 1..n |-> Frac(price(download.rows[i]), 1)]
         IN  [i \in 1..n |->
                [Date        |-> download.rows[i].Date,
                 Nifty       |-> prices[i],
                 NiftyChange |-> PctChange(prices, i)]]

\* the chart's series (normalized), given the merged frame: every outcome
ChartSeries(merged, nifty_df) ==
    UNION { { [i \in 1..Len(chart_df) |->
                 [Date       |-> chart_df[i].Date,
                  Fund_norm  |-> LET q == FDiv(chart_df[i].NAV, chart_df[1].NAV)
                                 IN  IF IsNum(q) THEN FMul(q, <<100, 1>>) ELSE q,
                  Nifty_norm |-> LET q == FDiv(nifty_df[pick[i]].Nifty, nifty_df[pick[1]].Nifty)
                                 IN  IF IsNum(q) THEN FMul(q, <<100, 1>>) ELSE q]] :
              pick \in { f \in [1..Len(chart_df) -> 1..Len(nifty_df)] :
                           \A i \in 1..Len(chart_df) :
                               f[i] \in Nearest(nifty_df, chart_df[i].Date) } } :
            chart_df \in SortByDateCol(merged) }

(* ------------------------------ the tiles ------------------------------ *)
\* `x or 0`: None and 0.0 are falsy
OrZero(x) == IF x = None \/ x = <<0, 1>> THEN <<0, 1>> ELSE x

\* f"{x:.2f}" of a float: the text, as the number of hundredths it shows
\* (halves rounded up)
Format2f(x) ==
    IF IsNum(x) THEN <<"%.2f", (2 * 100 * x[1] + x[2]) \div (2 * x[2])>>
    ELSE IF x = NaN THEN <<"nan", 0>>
    ELSE <<"inf", 0>>

\* the text of a fund's tile; formatting None with .2f raises TypeError
Tile(fund, info, f2, f5, n2, n5) ==
    [fund             |-> fund,
     current_nav      |-> Format2f(info.current_nav),
     current_date     |-> info.current_date,
     max_nav          |-> Format2f(info.max_nav),
     max_date         |-> info.max_date,
     fund_cagr_2y     |-> Format2f(OrZero(f2)),
     fund_cagr_5y     |-> Format2f(OrZero(f5)),
     nifty_cagr_2y    |-> Format2f(OrZero(n2)),
     nifty_cagr_5y    |-> Format2f(OrZero(n5))]

\* the buy alert's condition
BuyAlert(info) ==
    /\ info.current_nav # None
    /\ info.current_nav # <<0, 1>>
    /\ FLess(info.current_nav, FMul(<<AlertPercent, 100>>, info.max_nav))

\* a float is NaN (pd.isna)
IsNa(x) == x = NaN \/ x = None

\* row['Fund Change (%)'] < row['Nifty Change (%)'] - 3, inf being above
\* every number
Underperforms(change, nifty) ==
    IF change = Inf THEN FALSE
    ELSE IF nifty = Inf THEN TRUE
    ELSE FLess(change, FSub(nifty, <<UnderperformMargin, 1>>))

\* highlight_row(row)
HighlightRow(row) ==
    IF IsNa(row.Change) \/ IsNa(row.NiftyChange) THEN FALSE
    ELSE Underperforms(row.Change, row.NiftyChange)

\* the table of the last two years, each row with its highlight
MergedTable(merged, now) ==
    LET rows == SinceCutoffCol(merged, TableYears, now)
    IN  [i \in 1..Len(rows) |->
           [Date        |-> rows[i].Date,
            NAV         |-> Format2f(rows[i].NAV),
            Change      |-> Format2f(rows[i].Change),
            NiftyChange |-> Format2f(rows[i].NiftyChange),
            highlight   |-> HighlightRow(rows[i])]]

(* ------------------------------ inputs --------------------------------- *)
SeqsUpTo(S, n) == UNION { [1..k -> S] : k \in 0..n }

\* the day the page runs; 5 * 365 days before it is 2020-03-03 and 2 * 365
\* days before it is 2023-03-03, so both window edges fall on a 3rd
Today == <<2025, 3, 2>>

\* datetime.today(): midnight sharp, or later that day
NowValues == { Stamp(Today) + f : f \in {0, 1} }

Record(d, m, y, nav) == [date |-> <<d, m, y>>, nav |-> nav]

FundRecords ==
    { Record(3, 3, 2020, <<10>>), Record(3, 3, 2023, <<10>>), Record(3, 12, 2024, <<10>>),
      Record(3, 1, 2025, <<11>>), Record(3, 1, 2025, <<10>>), Record(1, 2, 2025, <<11>>),
      Record(3, 2, 2025, <<9>>),
      Record(31, 2, 2025, <<10>>), Record(3, 1, 2025, <<>>) }

Failure(kind) == [kind |-> kind, has_data |-> FALSE, data |-> <<>>]

Responses(records, n) ==
    { Failure("unreachable"), Failure("text"), Failure("json") }
    \cup { [kind |-> "json", has_data |-> TRUE, data |-> d] : d \in SeqsUpTo(records, n) }

SmallFundRecords == { Record(3, 1, 2025, <<10>>), Record(3, 2, 2025, <<7>>) }

NiftyRow(date, close) == [Date |-> date, Close |-> close, AdjClose |-> close - 1]

NiftyRows ==
    { NiftyRow(<<2023, 3, 3>>, 100), NiftyRow(<<2025, 1, 1>>, 100),
      NiftyRow(<<2025, 2, 1>>, 110), NiftyRow(<<2025, 2, 5>>, 121) }

Downloads(n) ==
    { [has_close |-> hc, has_adj |-> ha, rows |-> r] :
        hc \in BOOLEAN, ha \in BOOLEAN, r \in SeqsUpTo(NiftyRows, n) }

CagrValues == {-100, 0, 100, 121, 144}

CagrYears == {-1, 0, 1, 2, 5}

(* ------------------------------- state --------------------------------- *)
VARIABLES
    fn,         \* function-level runs: the function applied last
    input,      \* function-level runs: what the outside world gives
    hist,       \* function-level runs: the frames the function is applied to
    out,        \* function-level runs: what the function gave
    pc,             \* page run: the statement the script is at
    download,       \* what the benchmark download gives
    clock,          \* datetime.today()
    cache,          \* st.cache_data of fetch_fund_history, per fund
    nifty_df_full,
    idx,            \* i, the fund the tile loop is at
    nav_info,
    fund_df_full,
    fund_cagr_2y,
    fund_cagr_5y,
    nifty_cagr_2y,
    nifty_cagr_5y,
    tiles,          \* the tiles rendered so far in this run
    alerts,         \* the funds whose buy alert is shown in this run
    exc,            \* the exception that stopped this run, or "none"
    fund_choice,    \* the selectbox
    warning,
    table,
    chart

fnvars == <<fn, input, hist, out>>

locals == <<nav_info, fund_df_full, fund_cagr_2y, fund_cagr_5y, nifty_cagr_2y, nifty_cagr_5y>>

shown == <<tiles, alerts, warning, table, chart>>

pagevars == <<pc, download, clock, cache, nifty_df_full, idx, locals, shown, exc, fund_choice>>

vars == <<fnvars, pagevars>>

\* no cached value
Miss == [exc |-> "miss", df |-> <<>>]

\* the page's variables while no page runs
PageIdle ==
    /\ pc = "idle"
    /\ download = None
    /\ clock = 0
    /\ cache = None
    /\ nifty_df_full = None
    /\ idx = 0
    /\ nav_info = None
    /\ fund_df_full = None
    /\ fund_cagr_2y = None
    /\ fund_cagr_5y = None
    /\ nifty_cagr_2y = None
    /\ nifty_cagr_5y = None
    /\ tiles = <<>>
    /\ alerts = {}
    /\ exc = "none"
    /\ fund_choice = 0
    /\ warning = "none"
    /\ table = <<>>
    /\ chart = <<>>

(* ----------------------- function-level runs --------------------------- *)
FnStart ==
    /\ PageIdle
    /\ fn = "input"
    /\ hist = None
    /\ out = None

\* the fund functions, applied to what the fund API may answer
FundInit ==
    /\ FnStart
    /\ input \in { [kind |-> "fund", resp |-> r, now |-> t] :
                     r \in Responses(FundRecords, MaxLen), t \in NowValues }

\* calculate_cagr, applied to numbers of either sign
CagrInit ==
    /\ FnStart
    /\ input \in { [kind |-> "cagr", start_value |-> a, end_value |-> b, years |-> y] :
                     a \in CagrValues, b \in CagrValues, y \in CagrYears }

\* the benchmark functions, applied to what the download may give and to
\* the sampled series of a small history
NiftyInit ==
    /\ FnStart
    /\ input \in { [kind |-> "nifty", resp |-> r, download |-> d, now |-> t] :
                     r \in Responses(SmallFundRecords, 2),
                     d \in Downloads(MaxLen), t \in NowValues }

TestFetchFundHistory ==
    /\ fn = "input"
    /\ input.kind = "fund"
    /\ hist' \in FetchFundHistory(input.resp)
    /\ fn' = "fetch_fund_history"
    /\ UNCHANGED <<input, out, pagevars>>

TestGetFundData ==
    /\ fn = "fetch_fund_history"
    /\ hist.exc = "none"
    /\ out' \in GetFundData(hist.df, input.now)
    /\ fn' = "get_fund_data"
    /\ UNCHANGED <<input, hist, pagevars>>

TestGetCurrentAndAlltimeNav ==
    /\ fn = "fetch_fund_history"
    /\ hist.exc = "none"
    /\ out' = GetCurrentAndAlltimeNav(hist.df)
    /\ fn' = "get_current_and_alltime_nav"
    /\ UNCHANGED <<input, hist, pagevars>>

TestGetCagrFromHistory ==
    /\ fn = "fetch_fund_history"
    /\ hist.exc = "none"
    /\ \E years \in {ShortHorizon, LongHorizon} :
         \E r \in GetCagrFromHistory(hist.df, years, input.now) :
            out' = [years |-> years, exc |-> r.exc, val |-> r.val]
    /\ fn' = "get_cagr_from_history"
    /\ UNCHANGED <<input, hist, pagevars>>

TestCalculateCagr ==
    /\ fn = "input"
    /\ input.kind = "cagr"
    /\ out' = CalculateCagr(Frac(input.start_value, 1), Frac(input.end_value, 1), input.years)
    /\ fn' = "calculate_cagr"
    /\ UNCHANGED <<input, hist, pagevars>>

TestGetNiftyData ==
    /\ fn = "input"
    /\ input.kind = "nifty"
    /\ \E h \in FetchFundHistory(input.resp) :
         /\ h.exc = "none"
         /\ \E f \in GetFundData(h.df, input.now) :
              hist' = [fund_df |-> f, nifty_df |-> GetNiftyData(input.download)]
    /\ fn' = "get_nifty_data"
    /\ UNCHANGED <<input, out, pagevars>>

TestNiftyCagrYears ==
    /\ fn = "get_nifty_data"
    /\ \E years \in {ShortHorizon, LongHorizon} :
         \E r \in NiftyCagrYears(hist.nifty_df, years, input.now) :
            out' = [years |-> years, val |-> r]
    /\ fn' = "nifty_cagr_years"
    /\ UNCHANGED <<input, hist, pagevars>>

TestMergeFundNifty ==
    /\ fn = "get_nifty_data"
    /\ out' \in MergeFundNifty(hist.fund_df, hist.nifty_df)
    /\ fn' = "merge_fund_nifty"
    /\ UNCHANGED <<input, hist, pagevars>>

TestChartSeries ==
    /\ fn = "merge_fund_nifty"
    /\ hist.fund_df # <<>>
    /\ hist.nifty_df # <<>>
    /\ out' \in ChartSeries(out, hist.nifty_df)
    /\ fn' = "chart"
    /\ UNCHANGED <<input, hist, pagevars>>

FundNext ==
    \/ TestFetchFundHistory
    \/ TestGetFundData
    \/ TestGetCurrentAndAlltimeNav
    \/ TestGetCagrFromHistory

FundSpec == FundInit /\ [][FundNext]_vars

CagrNext == TestCalculateCagr

CagrSpec == CagrInit /\ [][CagrNext]_vars

NiftyNext ==
    \/ TestGetNiftyData
    \/ TestNiftyCagrYears
    \/ TestMergeFundNifty
    \/ TestChartSeries

NiftySpec == NiftyInit /\ [][NiftyNext]_vars

(* ----------------------------- the page run ---------------------------- *)
Funds == 1..NumFunds

PageDownloads ==
    { [has_close |-> TRUE, has_adj |-> FALSE, rows |-> r] :
        r \in { <<>>, <<NiftyRow(<<2025, 1, 1>>, 100), NiftyRow(<<2025, 2, 1>>, 121)>> } }

FnIdle ==
    /\ fn = "idle"
    /\ input = None
    /\ hist = None
    /\ out = None

Init ==
    /\ FnIdle
    /\ pc = "get_nifty_data"
    /\ download = None
    /\ clock = Stamp(Today) + 1
    /\ cache = [f \in Funds |-> Miss]
    /\ nifty_df_full = None
    /\ idx = 1
    /\ nav_info = None
    /\ fund_df_full = None
    /\ fund_cagr_2y = None
    /\ fund_cagr_5y = None
    /\ nifty_cagr_2y = None
    /\ nifty_cagr_5y = None
    /\ tiles = <<>>
    /\ alerts = {}
    /\ exc = "none"
    /\ fund_choice = 1
    /\ warning = "none"
    /\ table = <<>>
    /\ chart = <<>>

\* the cached fetch_fund_history(code): the cached frame, or what the call
\* gives for whatever the fund API answers, which is cached unless it raises
CachedFetch(f) ==
    IF cache[f] # Miss THEN {cache[f]}
    ELSE UNION { FetchFundHistory(r) : r \in Responses(SmallFundRecords, MaxPageLen) }

Remember(f, h) == IF h.exc = "none" THEN [cache EXCEPT ![f] = h] ELSE cache

\* an uncaught exception ends the run; what was rendered stays
Crash(name) ==
    /\ pc' = "crashed"
    /\ exc' = name

\* nifty_df_full = get_nifty_data()
GetNifty ==
    /\ pc = "get_nifty_data"
    /\ download' \in (IF download = None THEN PageDownloads ELSE {download})
    /\ nifty_df_full' = GetNiftyData(download')
    /\ pc' = "nav_info"
    /\ UNCHANGED <<fnvars, clock, cache, idx, locals, shown, exc, fund_choice>>

\* nav_info = get_current_and_alltime_nav(code)
NavInfo ==
    /\ pc = "nav_info"
    /\ \E h \in CachedFetch(idx) :
         /\ cache' = Remember(idx, h)
         /\ IF h.exc # "none"
            THEN Crash(h.exc) /\ UNCHANGED nav_info
            ELSE /\ nav_info' = GetCurrentAndAlltimeNav(h.df)
                 /\ pc' = "fund_df_full"
                 /\ UNCHANGED exc
    /\ UNCHANGED <<fnvars, download, clock, nifty_df_full, idx, fund_df_full,
                   fund_cagr_2y, fund_cagr_5y, nifty_cagr_2y, nifty_cagr_5y, shown,
                   fund_choice>>

\* fund_df_full = get_fund_data(code)
FundDfFull ==
    /\ pc = "fund_df_full"
    /\ \E h \in CachedFetch(idx) :
         /\ cache' = Remember(idx, h)
         /\ IF h.exc # "none"
            THEN Crash(h.exc) /\ UNCHANGED fund_df_full
            ELSE /\ fund_df_full' \in GetFundData(h.df, clock)
                 /\ pc' = "fund_cagr_2y"
                 /\ UNCHANGED exc
    /\ UNCHANGED <<fnvars, download, clock, nifty_df_full, idx, nav_info,
                   fund_cagr_2y, fund_cagr_5y, nifty_cagr_2y, nifty_cagr_5y, shown,
                   fund_choice>>

\* fund_cagr_2y = get_cagr_from_history(code, 2, column='NAV')
FundCagr2y ==
    /\ pc = "fund_cagr_2y"
    /\ \E h \in CachedFetch(idx) :
         /\ cache' = Remember(idx, h)
         /\ IF h.exc # "none"
            THEN Crash(h.exc) /\ UNCHANGED fund_cagr_2y
            ELSE \E r \in GetCagrFromHistory(h.df, ShortHorizon, clock) :
                    IF r.exc # "none"
                    THEN Crash(r.exc) /\ UNCHANGED fund_cagr_2y
                    ELSE /\ fund_cagr_2y' = r.val
                         /\ pc' = "fund_cagr_5y"
                         /\ UNCHANGED exc
    /\ UNCHANGED <<fnvars, download, clock, nifty_df_full, idx, nav_info,
                   fund_df_full, fund_cagr_5y, nifty_cagr_2y, nifty_cagr_5y, shown,
                   fund_choice>>

\* fund_cagr_5y = get_cagr_from_history(code, 5, column='NAV')
FundCagr5y ==
    /\ pc = "fund_cagr_5y"
    /\ \E h \in CachedFetch(idx) :
         /\ cache' = Remember(idx, h)
         /\ IF h.exc # "none"
            THEN Crash(h.exc) /\ UNCHANGED fund_cagr_5y
            ELSE \E r \in GetCagrFromHistory(h.df, LongHorizon, clock) :
                    IF r.exc # "none"
                    THEN Crash(r.exc) /\ UNCHANGED fund_cagr_5y
                    ELSE /\ fund_cagr_5y' = r.val
                         /\ pc' = "nifty_cagr"
                         /\ UNCHANGED exc
    /\ UNCHANGED <<fnvars, download, clock, nifty_df_full, idx, nav_info,
                   fund_df_full, fund_cagr_2y, nifty_cagr_2y, nifty_cagr_5y, shown,
                   fund_choice>>

\* nifty_cagr_2y = nifty_cagr_years(nifty_df_full, 2), and the same for 5
NiftyCagr ==
    /\ pc = "nifty_cagr"
    /\ nifty_cagr_2y' \in NiftyCagrYears(nifty_df_full, ShortHorizon, clock)
    /\ nifty_cagr_5y' \in NiftyCagrYears(nifty_df_full, LongHorizon, clock)
    /\ pc' = "tile"
    /\ UNCHANGED <<fnvars, download, clock, cache, nifty_df_full, idx, nav_info,
                   fund_df_full, fund_cagr_2y, fund_cagr_5y, shown, exc, fund_choice>>

\* with cols[i]: st.markdown(...), and the buy alert; then the next fund
RenderTile ==
    /\ pc = "tile"
    /\ IF nav_info.current_nav = None \/ nav_info.max_nav = None
       THEN Crash("TypeError") /\ UNCHANGED <<tiles, alerts, idx>>
       ELSE /\ tiles' = Append(tiles, Tile(idx, nav_info, fund_cagr_2y, fund_cagr_5y,
                                            nifty_cagr_2y, nifty_cagr_5y))
            /\ alerts' = IF BuyAlert(nav_info) THEN alerts \cup {idx} ELSE alerts
            /\ IF idx < NumFunds
               THEN idx' = idx + 1 /\ pc' = "nav_info"
               ELSE idx' = idx /\ pc' = "analysis"
            /\ UNCHANGED exc
    /\ UNCHANGED <<fnvars, download, clock, cache, nifty_df_full, locals,
                   warning, table, chart, fund_choice>>

\* the analysis of the fund the selectbox holds
Analysis ==
    /\ pc = "analysis"
    /\ \E h \in CachedFetch(fund_choice) :
         /\ cache' = Remember(fund_choice, h)
         /\ IF h.exc # "none"
            THEN Crash(h.exc) /\ UNCHANGED <<warning, table, chart>>
            ELSE \E fund_df \in GetFundData(h.df, clock) :
                    /\ pc' = "done"
                    /\ UNCHANGED exc
                    /\ IF fund_df = <<>>
                       THEN /\ warning' = "No fund data available"
                            /\ UNCHANGED <<table, chart>>
                       ELSE IF nifty_df_full = <<>>
                       THEN /\ warning' = "Nifty data not available"
                            /\ UNCHANGED <<table, chart>>
                       ELSE \E merged \in MergeFundNifty(fund_df, nifty_df_full) :
                               /\ table' = MergedTable(merged, clock)
                               /\ chart' \in ChartSeries(merged, nifty_df_full)
                               /\ UNCHANGED warning
    /\ UNCHANGED <<fnvars, download, clock, nifty_df_full, idx, locals, tiles,
                   alerts, fund_choice>>

\* the script starts over with nothing rendered
Restart ==
    /\ pc' = "get_nifty_data"
    /\ idx' = 1
    /\ nifty_df_full' = None
    /\ nav_info' = None
    /\ fund_df_full' = None
    /\ fund_cagr_2y' = None
    /\ fund_cagr_5y' = None
    /\ nifty_cagr_2y' = None
    /\ nifty_cagr_5y' = None
    /\ tiles' = <<>>
    /\ alerts' = {}
    /\ warning' = "none"
    /\ table' = <<>>
    /\ chart' = <<>>
    /\ exc' = "none"

\* the user picks another fund in the selectbox: the script runs again
Select ==
    /\ pc = "done"
    /\ \E f \in Funds : f # fund_choice /\ fund_choice' = f
    /\ Restart
    /\ UNCHANGED <<fnvars, download, clock, cache>>

\* the cached values expire (ttl of 24 hours) and the page is opened in a
\* new session, where the sources may answer anew
Expire ==
    /\ pc \in {"done", "crashed"}
    /\ cache' = [f \in Funds |-> Miss]
    /\ download' = None
    /\ fund_choice' = 1
    /\ Restart
    /\ UNCHANGED <<fnvars, clock>>

Next ==
    \/ GetNifty
    \/ NavInfo
    \/ FundDfFull
    \/ FundCagr2y
    \/ FundCagr5y
    \/ NiftyCagr
    \/ RenderTile
    \/ Analysis
    \/ Select
    \/ Expire

Spec == Init /\ [][Next]_vars

(* ------------------------------ claims --------------------------------- *)
\* the observations of a payload, parsed, in payload order
Observations(resp) ==
    [i \in 1..Len(resp.data) |->
        [date |-> ParseDate(resp.data[i].date), nav |-> ParseFloat(resp.data[i].nav)]]

\* a response that carries no usable history
FailedResponse(resp) ==
    \/ resp.kind # "json"
    \/ ~resp.has_data
    \/ \E i \in 1..Len(resp.data) :
          ParseDate(resp.data[i].date) = None \/ ParseFloat(resp.data[i].nav) = None

\* the dates of the fetched history that lie in the last `years` years
DatesWithin(rows, years, now) ==
    { rows[i].date : i \in { j \in 1..Len(rows) :
                               Stamp(rows[j].date) >= now - Days(years * DaysPerYear) } }

\* the date the sampler's fallback order selects among the dates of a month
FallbackDate(dates) ==
    IF \E d \in dates : d[3] = TargetDay
    THEN CHOOSE d \in dates : d[3] = TargetDay
    ELSE IF \E d \in dates : d[3] > TargetDay
    THEN CHOOSE d \in dates : d[3] > TargetDay /\ \A e \in dates : e[3] > TargetDay => d[3] <= e[3]
    ELSE CHOOSE d \in dates : \A e \in dates : e[3] <= d[3]

\* C1: fetch_fund_history never raises; every failure of the HTTP call or of
\* the parse gives an empty Series.
C1_FetchNeverRaises ==
    fn = "fetch_fund_history" =>
        /\ hist.exc = "none"
        /\ FailedResponse(input.resp) => hist.df = <<>>

\* C3: every month of the 5-year window that has an observation contributes
\* exactly one row to get_fund_data's result, the one the fallback order
\* (day 3, else earliest after, else latest before) selects.
C3_FallbackSampling ==
    fn = "get_fund_data" =>
        LET dates == DatesWithin(hist.df, WindowYears, input.now)
        IN  \A d \in dates :
               LET month == { e \in dates : MonthOf(e) = MonthOf(d) }
                   rows  == { i \in 1..Len(out) : MonthOf(out[i].Date) = MonthOf(d) }
               IN  /\ Cardinality(rows) = 1
                   /\ \A i \in rows : out[i].Date = FallbackDate(month)

\* C4: in get_fund_data's result a row with no older row has an undefined
\* change, and every other row's change is (NAV - NAV_prev) / NAV_prev * 100
\* for the NAV of the next-older row of the result.
C4_ChangeAscending ==
    fn = "get_fund_data" =>
        \A i \in 1..Len(out) :
            LET older == { j \in 1..Len(out) : Ord(out[j].Date) < Ord(out[i].Date) }
                prev  == { j \in older : \A k \in older : Ord(out[k].Date) <= Ord(out[j].Date) }
            IN  IF older = {} THEN out[i].Change = NaN
                ELSE \E j \in prev :
                        out[i].Change =
                            LET q == FDiv(FSub(out[i].NAV, out[j].NAV), out[j].NAV)
                            IN  IF IsNum(q) THEN FMul(q, <<100, 1>>) ELSE q

\* C5: calculate_cagr gives None exactly when start_value <= 0 or
\* end_value <= 0 or years <= 0, and otherwise a number, which is 0 when
\* end_value equals start_value.
C5_CagrDomain ==
    fn = "calculate_cagr" =>
        /\ out = None <=> (input.start_value <= 0 \/ input.end_value <= 0 \/ input.years <= 0)
        /\ out # None => IsNum(out)
        /\ (out # None /\ input.start_value = input.end_value) => out = <<0, 1>>

C5_Witness ==
    /\ fn = "calculate_cagr"
    /\ input.start_value = 100
    /\ input.end_value = 100
    /\ input.years = 5
    /\ out = <<0, 1>>

\* the result a horizon must give, for the timestamps and the prices of
\* the observations: None with fewer than two observations in the horizon,
\* else the rate from an earliest-dated to a latest-dated one
HorizonResult(val, stamps, prices, years, now) ==
    LET within == { i \in 1..Len(stamps) : stamps[i] >= now - Days(years * DaysPerYear) }
        first  == { i \in within : \A j \in within : stamps[i] <= stamps[j] }
        last   == { i \in within : \A j \in within : stamps[j] <= stamps[i] }
    IN  IF Cardinality(within) < 2 THEN val = None
        ELSE \E a \in first, b \in last : val = CalculateCagr(prices[a], prices[b], years)

\* C6: get_cagr_from_history and nifty_cagr_years take the earliest-dated
\* and the latest-dated observation of the horizon, whatever the input
\* order, and give None when fewer than two observations lie in it.
C6_HorizonWindow ==
    /\ fn = "get_cagr_from_history" =>
          LET obs == Observations(input.resp)
          IN  /\ out.exc = "none"
              /\ HorizonResult(out.val,
                               [i \in 1..Len(obs) |-> Stamp(obs[i].date)],
                               [i \in 1..Len(obs) |-> obs[i].nav],
                               out.years, input.now)
    /\ fn = "nifty_cagr_years" =>
          HorizonResult(out.val,
                        [i \in 1..Len(hist.nifty_df) |-> Stamp(hist.nifty_df[i].Date)],
                        [i \in 1..Len(hist.nifty_df) |-> hist.nifty_df[i].Nifty],
                        out.years, input.now)

\* C7: each fund date gets the benchmark row at minimum absolute distance,
\* and of two rows equally distant the one with the earlier date.
C7_NearestEarlier ==
    (fn = "merge_fund_nifty" /\ hist.fund_df # <<>> /\ hist.nifty_df # <<>>) =>
        \A i \in 1..Len(out) :
            \E j \in Nearest(hist.nifty_df, out[i].Date) :
                /\ \A k \in Nearest(hist.nifty_df, out[i].Date) :
                      Ord(hist.nifty_df[j].Date) <= Ord(hist.nifty_df[k].Date)
                /\ out[i].NiftyChange = hist.nifty_df[j].NiftyChange

\* C9: get_fund_data's result has at most one row per calendar month, and
\* no two rows with the same Date.
C9_OneRowPerMonth ==
    fn = "get_fund_data" =>
        \A i \in 1..Len(out) : \A j \in 1..Len(out) :
            i # j => MonthOf(out[i].Date) # MonthOf(out[j].Date)

\* the statements of the tile loop that follow get_current_and_alltime_nav
AfterNavInfo == {"fund_df_full", "fund_cagr_2y", "fund_cagr_5y", "nifty_cagr", "tile"}

\* C2: a fund whose fetch gave an empty Series does not stop the run: its
\* sampled series is empty, its CAGR results are None, and the loop goes on
\* to the other funds.
C2_EmptyFetchDegrades ==
    (idx \in Funds /\ cache[idx] = Returns(<<>>)) =>
        /\ pc # "crashed"
        /\ pc \in {"fund_cagr_2y", "fund_cagr_5y", "nifty_cagr", "tile"} => fund_df_full = <<>>
        /\ pc \in {"fund_cagr_5y", "nifty_cagr", "tile"} => fund_cagr_2y = None
        /\ pc \in {"nifty_cagr", "tile"} => fund_cagr_5y = None

\* C8: an undefined CAGR is never shown as 0.00% in the tile (after a tile
\* is rendered the loop's variables still hold the values it was made from).
C8_UndefinedNotZero ==
    (pc \in {"nav_info", "analysis", "done"} /\ tiles # <<>>) =>
        LET t == tiles[Len(tiles)]
        IN  /\ fund_cagr_2y = None => t.fund_cagr_2y # Format2f(<<0, 1>>)
            /\ fund_cagr_5y = None => t.fund_cagr_5y # Format2f(<<0, 1>>)
            /\ nifty_cagr_2y = None => t.nifty_cagr_2y # Format2f(<<0, 1>>)
            /\ nifty_cagr_5y = None => t.nifty_cagr_5y # Format2f(<<0, 1>>)

\* the positions of the latest-dated observations of a history
Latest(obs) ==
    { k \in 1..Len(obs) : \A j \in 1..Len(obs) : Ord(obs[j].date) <= Ord(obs[k].date) }

\* C10: for a non-empty fetched history current_nav is the NAV of the
\* latest-dated observation and max_nav is at least every NAV of the
\* history, so max_nav >= current_nav and max_date <= current_date; and a
\* buy alert is shown only for a fund whose current NAV is strictly below
\* 80% of the maximum NAV of its history.
C10_CurrentAndMax ==
    /\ (pc \in AfterNavInfo /\ cache[idx].df # <<>>) =>
          LET obs == cache[idx].df
          IN  /\ \E k \in Latest(obs) : nav_info.current_nav = obs[k].nav
              /\ \A k \in 1..Len(obs) : ~FLess(nav_info.max_nav, obs[k].nav)
              /\ \E k \in 1..Len(obs) : nav_info.max_nav = obs[k].nav
              /\ ~FLess(nav_info.max_nav, nav_info.current_nav)
              /\ Ord(nav_info.max_date) <= Ord(nav_info.current_date)
    /\ \A f \in alerts :
          LET obs == cache[f].df
          IN  \E k \in Latest(obs) : \E m \in 1..Len(obs) :
                 /\ \A j \in 1..Len(obs) : ~FLess(obs[m].nav, obs[j].nav)
                 /\ 100 * obs[k].nav[1] * obs[m].nav[2]
                       < AlertPercent * obs[m].nav[1] * obs[k].nav[2]

C10_Witness ==
    /\ pc = "done"
    /\ alerts # {}
    /\ Len(tiles) = NumFunds

====
